---------------------------- MODULE Spec2Model ----------------------------
(***************************************************************************)
(* Offline attendance capture and resynchronisation of the attendance app. *)
(*                                                                         *)
(* Modelled components                                                     *)
(*   App              (src/App.tsx): connectivity flag, the App's copy of  *)
(*                    the pending queue, syncOfflineData (the drain).      *)
(*   QRCodeScanner    (src/components/admin/TeacherForm.tsx:124-328): the  *)
(*                    scan / location / processAttendance flow.            *)
(*   mockApiService   (src/components/admin/TeacherForm.tsx:574-740): the  *)
(*                    remote store.                                        *)
(*   useLocalStorage  (hooks/useLocalStorage, not among the sources): a    *)
(*                    React state initialised from the persisted key whose *)
(*                    setter stores the value in the state and in          *)
(*                    localStorage.                                        *)
(*                                                                         *)
(* Strings are sequences of one-character strings, so that split('-') is   *)
(* computed and not assumed.                                               *)
(***************************************************************************)
EXTENDS Integers, Sequences, FiniteSets, TLC

\* ------------------------------------------------------------------ bounds
\* The client clock (Date.now()) counts from 1 up to MaxClock.
MaxClock == 3
\* At most MaxDrains calls of syncOfflineData have submissions outstanding.
MaxDrains == 2
\* The remote store accepts at most MaxStore records beyond the initial ones.
MaxStore == 3
\* Longest arbitrary code handed to the record builder in SpecBuild.
MaxCodeLen == 4
\* Largest timestamp used to generate session codes / teacher ids in SpecBuild.
MaxStamp == 12
\* At most MaxAccounts accounts are added to the initial ones in SpecApi.
MaxAccounts == 1
\* mockApiService stores at most MaxQuizzes quizzes in SpecQuiz.
MaxQuizzes == 2
\* A generated quiz has at most MaxQuestions questions.
MaxQuestions == 2
\* A question has NumOptions options.
NumOptions == 2
\* The reading of Date.now() at which the clock of the model starts counting
\* for the ids the mock API makes (the initial ids end in 1, 2, 3).
Epoch == 10

NULL == "null"

\* ----------------------------------------------------------------- strings
DigitChar == <<"0", "1", "2", "3", "4", "5", "6", "7", "8", "9">>

RECURSIVE Decimal(_)
\* `${n}` for a non-negative integer n.
Decimal(n) ==
  IF n < 10 THEN <<DigitChar[n + 1]>>
  ELSE Decimal(n \div 10) \o <<DigitChar[(n % 10) + 1]>>

Range(s) == {s[i] : i \in DOMAIN s}

\* Position of the first '-' of s, 0 when s has none.
FirstDash(s) ==
  IF \E i \in DOMAIN s : s[i] = "-"
  THEN CHOOSE i \in DOMAIN s : s[i] = "-" /\ \A j \in 1..(i - 1) : s[j] # "-"
  ELSE 0

\* Position of the last '-' of s, 0 when s has none.
LastDash(s) ==
  IF \E i \in DOMAIN s : s[i] = "-"
  THEN CHOOSE i \in DOMAIN s : s[i] = "-" /\ \A j \in (i + 1)..Len(s) : s[j] # "-"
  ELSE 0

\* For comparison: the part before the LAST '-'.
SplitFirst_upToLastDash(s) ==
  IF LastDash(s) = 0 THEN s ELSE SubSeq(s, 1, LastDash(s) - 1)

\* sessionId.split('-')[0]: the part before the first '-', the whole string
\* when there is no '-'.
SplitFirst(s) ==
  IF FirstDash(s) = 0 THEN s ELSE SubSeq(s, 1, FirstDash(s) - 1)

\* ------------------------------------------------------- teacher / session
TeacherPrefix == <<"t", "e", "a", "c", "h", "e", "r">>
SessionInfix == <<"-", "S", "E", "S", "S", "I", "O", "N", "-">>

\* id: `teacher${Date.now()}` (addTeacher); the initial teachers are
\* 'teacher1' and 'teacher2', of the same shape.
TeacherId(t) == TeacherPrefix \o Decimal(t)

\* `${user.id}-SESSION-${Date.now()}`
generateCode(userId, t) == userId \o SessionInfix \o Decimal(t)

\* The role of the user who logs in at the LoginScreen: a student, whose
\* dashboard holds the QRCodeScanner.
Student == "Student"

\* The logged-in student (initialStudents[0]).
StudentId == <<"s", "t", "u", "d", "e", "n", "t", "1">>

\* location: {latitude, longitude} | null, as the sequence of its coordinates:
\* a position as locationService.getCurrentPosition() resolves it, and null.
Position == <<34, -118>>
NoLocation == <<>>

\* For comparison: a guard that looks at the code only, not at teacherId.
InvalidCode_codeOnly(decodedText) == decodedText = <<>>

\* processAttendance, lines 205-210: the guard that throws
\* "Invalid QR code format.".
InvalidCode(decodedText) ==
  SplitFirst(decodedText) = <<>> \/ decodedText = <<>>

\* For comparison: a record that keeps the latitude only.
attendanceData_latitudeOnly(location, decodedText, t) ==
  [studentId |-> StudentId,
   teacherId |-> SplitFirst(decodedText),
   sessionId |-> decodedText,
   timestamp |-> t,
   location  |-> IF location = <<>> THEN <<>> ELSE <<location[1]>>]

\* processAttendance, lines 211-219: attendanceData.
attendanceData(location, decodedText, t) ==
  [studentId |-> StudentId,
   teacherId |-> SplitFirst(decodedText),
   sessionId |-> decodedText,
   timestamp |-> t,
   location  |-> location]


\* initialAttendance (att1, att2): two records of session 'PHYS101-202401'
\* taken a day before the clock of the model starts.
InitialSession ==
  <<"P", "H", "Y", "S", "1", "0", "1", "-", "2", "0", "2", "4", "0", "1">>
initialAttendance ==
  << [id |-> <<"a", "t", "t", "1">>, studentId |-> StudentId, teacherId |-> TeacherId(1),
      sessionId |-> InitialSession, timestamp |-> 0, location |-> Position],
     [id |-> <<"a", "t", "t", "2">>, studentId |-> <<"s", "t", "u", "d", "e", "n", "t", "2">>,
      teacherId |-> TeacherId(1), sessionId |-> InitialSession,
      timestamp |-> 0, location |-> Position] >>

\* ----------------------------------------------------- scanned QR payloads
\* A code a teacher session shows, and payloads that are no session code:
\* one without separator, the empty payload, one with nothing before the
\* first separator.  The scanner of Spec is shown the codes of ScanCodes.
ValidCode == generateCode(TeacherId(1), 1)
NoDashCode == <<"a", "b", "c">>
EmptyCode == <<>>
LeadingDashCode == <<"-", "S">>
ScanCodes == {ValidCode, EmptyCode, LeadingDashCode}

\* --------------------------------------------------------- useLocalStorage
\* useState(() => JSON.parse(localStorage.getItem(key)) ?? initialValue)
useLocalStorageInit(stored) == stored

\* setValue(v): setStoredValue(v); localStorage.setItem(key, JSON.stringify(v))
useLocalStorageSet(value) == [state |-> value, stored |-> value]

\* setValue(v) when localStorage.setItem throws (quota exceeded, value that
\* cannot be serialised): the hook catches and logs the error; the state is
\* set, the key `old` keeps its value and nothing reaches the caller.
useLocalStorageSetFailed(value, old) ==
  [state |-> value, stored |-> old, thrown |-> FALSE]

\* ------------------------------------------------------------------- state
VARIABLES
  currentUser,        \* App: useLocalStorage('currentUser'): null or the user
  isOffline,          \* App: useState(!navigator.onLine)
  storage,            \* localStorage['pendingAttendance']
  appPending,         \* App: pendingAttendance of this render
  drains,             \* calls of syncOfflineData and their submissions
  attendanceRecords,  \* mockApiService: attendanceRecords
  now,                \* Date.now()
  scMounted,          \* QRCodeScanner is mounted
  qrState,            \* Html5Qrcode: NOT_STARTED, STARTING, SCANNING, PAUSED
  scPending,          \* QRCodeScanner: pendingAttendance of this render
  cIsOffline,         \* isOffline as closed over by the registered onScanSuccess
  cPending,           \* pendingAttendance as closed over by the same closure
  locationError,      \* QRCodeScanner state
  pendingScanData,    \* QRCodeScanner state
  scanCompleted,      \* QRCodeScanner state
  message,            \* QRCodeScanner state
  proc,               \* the onScanSuccess / handleMarkWithoutLocation call in flight
  enqueued,           \* history: the records line 222 appended while offline
                      \* and no drain cleared yet (recs); offline is FALSE, and
                      \* recs is dropped, once line 222 ran while connected
  bCode, bLoc, bOffline, bOut, \* processAttendance applied on its own (SpecBuild)
  bEnq,               \* and its write of the queue, which may fail (SpecBuild)
  teachers, students, \* mockApiService: the stored accounts
  apiRet,             \* what the last call of the mock API returned or threw
  quizzes,            \* mockApiService: quizzes
  view,               \* StudentDashboard: 'main' | 'quiz' | 'results'
  activeQuiz,         \* StudentDashboard state
  quizResult,         \* StudentDashboard state
  quiz,               \* QuizResults state: the quiz it loaded, or null
  gen,                \* QuizGenerator: the quiz handleGenerate built and is saving
  fetch               \* QuizResults: fetchQuiz of the effect: none, pending, done

scanVars == <<scMounted, qrState, scPending, cIsOffline, cPending,
              locationError, pendingScanData, scanCompleted, message, proc>>
buildVars == <<bCode, bLoc, bOffline, bOut, bEnq>>
apiVars == <<teachers, students, apiRet>>
quizVars == <<quizzes, view, activeQuiz, quizResult, quiz, gen, fetch>>
vars == <<currentUser, isOffline, storage, appPending, drains, attendanceRecords, now,
          scMounted, qrState, scPending, cIsOffline, cPending, locationError,
          pendingScanData, scanCompleted, message, proc, enqueued,
          bCode, bLoc, bOffline, bOut, bEnq,
          teachers, students, apiRet,
          quizzes, view, activeQuiz, quizResult, quiz, gen, fetch>>

\* ------------------------------------------ mockApiService: the accounts
\* A User with the fields the account operations read: id, name, email,
\* role and the optional password (phone, address, specialization and
\* enrollmentNumber are carried along unread and are left out).
User(id, name, email, role, password) ==
  [id |-> id, name |-> name, email |-> email, role |-> role,
   password |-> password]

\* initialTeachers, initialStudents (lines 596-604) and MOCK_ADMIN (616),
\* which has no password field.
initialTeachers ==
  << User(TeacherId(1), "Dr. Evelyn Reed", "e.reed@school.com", "Teacher",
          "password123"),
     User(TeacherId(2), "Mr. Samuel Chen", "s.chen@school.com", "Teacher",
          "password123") >>
StudentPrefix == <<"s", "t", "u", "d", "e", "n", "t">>
initialStudents ==
  << User(StudentPrefix \o Decimal(1), "Alice Johnson", "alice.j@school.com",
          "Student", "password123"),
     User(StudentPrefix \o Decimal(2), "Bob Williams", "bob.w@school.com",
          "Student", "password123"),
     User(StudentPrefix \o Decimal(3), "Charlie Brown", "charlie.b@school.com",
          "Student", "password123") >>
MOCK_ADMIN ==
  [id |-> <<"a", "d", "m", "i", "n", "1">>, name |-> "Admin User",
   email |-> "admin@school.com", role |-> "Admin"]

\* No call of the mock API has returned yet.
NoRet == [op |-> "none", thrown |-> FALSE, users |-> <<>>]

\* A drain: the batch it submits (snap), what each submission returned so
\* far (res: "out", "ok", "fail"), how Promise.all settled (settled: "no",
\* "cleared", "failed") and, as history, the persisted queue when it started.
NoDrain == [snap |-> <<>>, res |-> <<>>, settled |-> "none", q0 |-> <<>>]
\* string | null and record | null, as a sequence holding the value or nothing.
Some(v) == <<v>>
None == <<>>
NoneEnqueued == [recs |-> <<>>, offline |-> TRUE]
NoProc == [pc |-> "idle", via |-> "none", code |-> <<>>, rec |-> None]

Init ==
  /\ currentUser \in {NULL, Student}
  /\ isOffline \in BOOLEAN
  /\ storage = <<>>
  /\ appPending = useLocalStorageInit(<<>>)
  /\ drains = [k \in 1..MaxDrains |-> NoDrain]
  /\ attendanceRecords = initialAttendance
  /\ now = 1
  /\ scMounted = FALSE
  /\ qrState = "NOT_STARTED"
  /\ scPending = <<>>
  /\ cIsOffline = FALSE
  /\ cPending = <<>>
  /\ locationError = NULL
  /\ pendingScanData = None
  /\ scanCompleted = FALSE
  /\ message = "scan"
  /\ proc = NoProc
  /\ enqueued = NoneEnqueued
  /\ bCode = <<>> /\ bLoc = NoLocation /\ bOffline = FALSE /\ bOut = None
  /\ bEnq = None
  /\ teachers = initialTeachers
  /\ students = initialStudents
  /\ apiRet = NoRet
  /\ quizzes = <<>>
  /\ view = "main"
  /\ activeQuiz = None
  /\ quizResult = None
  /\ quiz = None
  /\ gen = None
  /\ fetch = "none"

\* ------------------------------------------------------- mockApiService
\* markAttendance, lines 703-704: { ...record, id: `att${Date.now()}` } pushed.
markAttendance(records, record, t) ==
  Append(records,
         [id |-> <<"a", "t", "t">> \o Decimal(t),
          studentId |-> record.studentId, teacherId |-> record.teacherId,
          sessionId |-> record.sessionId, timestamp |-> record.timestamp,
          location |-> record.location])

StoreHasRoom == Len(attendanceRecords) < Len(initialAttendance) + MaxStore

\* ------------------------------------------------------ App: the drain
Outstanding(d) == {i \in DOMAIN d.res : d.res[i] = "out"}
FreeSlots(ds) == {k \in 1..MaxDrains : Outstanding(ds[k]) = {}}
Lowest(S) == CHOOSE k \in S : \A j \in S : k <= j

\* For comparison: a guard that does not look at isOffline.
ShouldSync_anyConnectivity(pending, offline) == Len(pending) > 0

\* syncOfflineData, line 24: the guard of the drain.
ShouldSync(pending, offline) == Len(pending) > 0 /\ ~offline

\* For comparison: a drain that hands every record to markAttendance twice.
syncOfflineData_eachTwice(pending, offline, ds) ==
  IF ShouldSync(pending, offline)
  THEN [ds EXCEPT ![Lowest(FreeSlots(ds))] =
          [snap |-> pending \o pending,
           res |-> [i \in 1..(2 * Len(pending)) |-> "out"],
           settled |-> "no", q0 |-> storage]]
  ELSE ds

\* syncOfflineData, lines 24-29: every record of this render's
\* pendingAttendance is handed to markAttendance.
syncOfflineData(pending, offline, ds) ==
  IF ShouldSync(pending, offline)
  THEN [ds EXCEPT ![Lowest(FreeSlots(ds))] =
          [snap |-> pending, res |-> [i \in DOMAIN pending |-> "out"],
           settled |-> "no", q0 |-> storage]]
  ELSE ds

\* At most MaxDrains drains have submissions outstanding.
CanSync(pending, offline, ds) ==
  ShouldSync(pending, offline) => FreeSlots(ds) # {}

\* For comparison: fulfilled as soon as one submission is (Promise.any).
AllFulfilled_anyOne(res) == \E i \in DOMAIN res : res[i] = "ok"

\* Promise.all: fulfilled once every submission is fulfilled.
AllFulfilled(res) == \A i \in DOMAIN res : res[i] = "ok"

\* window 'online' event: handleOnline, then the effect of lines 59-64.
GoOnline ==
  /\ isOffline
  /\ CanSync(appPending, FALSE, drains)
  /\ isOffline' = FALSE
  /\ drains' = syncOfflineData(appPending, FALSE, drains)
  /\ UNCHANGED <<currentUser, storage, appPending, attendanceRecords, now,
                 scanVars, enqueued, buildVars, apiVars, quizVars>>

\* window 'offline' event: handleOffline; the effect does nothing offline.
GoOffline ==
  /\ ~isOffline
  /\ isOffline' = TRUE
  /\ UNCHANGED <<currentUser, storage, appPending, drains, attendanceRecords, now, scanVars, enqueued, buildVars, apiVars, quizVars>>

\* History: the enqueued records that are not in the batch snap.
NotIn(enq, snap) ==
  [enq EXCEPT !.recs = SelectSeq(@, LAMBDA r : r \notin Range(snap))]
\* History: line 222 appended the record r.
Enqueue(enq, r) ==
  IF enq.offline /\ isOffline THEN [enq EXCEPT !.recs = Append(@, r)]
  ELSE [recs |-> <<>>, offline |-> FALSE]

\* The next submission of a drain returns (the submissions of one drain wait
\* the same delay and return in the order of their calls).  A fulfilled one
\* has stored its record; the first rejected one rejects Promise.all
\* (lines 33-36); the last fulfilled one fulfils it (lines 30-32), which
\* clears the queue and re-runs the effect with an empty pendingAttendance.
DrainResolve(k, ok) ==
  LET d == drains[k]
      i == Lowest(Outstanding(d))
      res2 == [d.res EXCEPT ![i] = IF ok THEN "ok" ELSE "fail"]
      clears == d.settled = "no" /\ AllFulfilled(res2)
      fails == d.settled = "no" /\ ~ok
      set == useLocalStorageSet(<<>>)
  IN /\ Outstanding(d) # {}
     /\ ok => StoreHasRoom
     /\ attendanceRecords' =
          IF ok THEN markAttendance(attendanceRecords, d.snap[i], now)
          ELSE attendanceRecords
     /\ drains' = [drains EXCEPT ![k] =
          [d EXCEPT !.res = res2,
                    !.settled = IF clears THEN "cleared"
                                ELSE IF fails THEN "failed" ELSE @]]
     /\ appPending' = IF clears THEN set.state ELSE appPending
     /\ storage' = IF clears THEN set.stored ELSE storage
     /\ enqueued' = IF clears THEN NotIn(enqueued, d.snap) ELSE enqueued
     /\ UNCHANGED <<currentUser, isOffline, now, scanVars, buildVars, apiVars, quizVars>>

\* The clock advances.
Tick ==
  /\ now < MaxClock
  /\ now' = now + 1
  /\ UNCHANGED <<currentUser, isOffline, storage, appPending, drains,
                 attendanceRecords,
                 scanVars, enqueued, buildVars, apiVars, quizVars>>


\* ------------------------------------------------------- QRCodeScanner
\* The component mounts (StudentDashboard shows its main view): first render,
\* then the effect of lines 174-202 creates the scanner and registers the
\* onScanSuccess of this first render, which closes over the isOffline,
\* pendingAttendance, locationError (null) and scanCompleted (false) of it.
ScannerMount ==
  /\ currentUser = Student
  /\ ~scMounted
  /\ qrState = "NOT_STARTED"
  /\ proc.pc = "idle"
  /\ scMounted' = TRUE
  /\ qrState' = "STARTING"
  /\ scPending' = useLocalStorageInit(storage)
  /\ cIsOffline' = isOffline
  /\ cPending' = useLocalStorageInit(storage)
  /\ locationError' = NULL
  /\ pendingScanData' = None
  /\ scanCompleted' = FALSE
  /\ message' = "scan"
  /\ UNCHANGED <<currentUser, isOffline, storage, appPending, drains,
                 attendanceRecords,
                 now, proc, enqueued, buildVars, apiVars, quizVars>>

\* qrScanner.start(...) resolves, or rejects into the catch of lines 186-190.
ScannerStarted(ok) ==
  /\ qrState = "STARTING"
  /\ qrState' = IF ok THEN "SCANNING" ELSE "NOT_STARTED"
  /\ message' = IF ~ok /\ scMounted THEN "cameraError" ELSE message
  /\ UNCHANGED <<currentUser, isOffline, storage, appPending, drains,
                 attendanceRecords,
                 now, scMounted, scPending, cIsOffline, cPending,
                 locationError, pendingScanData, scanCompleted, proc,
                 enqueued, buildVars, apiVars, quizVars>>

\* Html5Qrcode.isScanning
isScanning == qrState \in {"SCANNING", "PAUSED"}

\* The component unmounts: the cleanup of lines 195-199.  Its state is
\* gone; the closure of a call of onScanSuccess that still waits for the
\* location lives on until that call ends.
ScannerGone ==
  /\ scMounted' = FALSE
  /\ qrState' = IF isScanning THEN "NOT_STARTED" ELSE qrState
  /\ scPending' = <<>>
  /\ locationError' = NULL
  /\ pendingScanData' = None
  /\ scanCompleted' = FALSE
  /\ message' = "scan"
  /\ cIsOffline' = IF proc.pc = "locating" THEN cIsOffline ELSE FALSE
  /\ cPending' = IF proc.pc = "locating" THEN cPending ELSE <<>>

\* The student leaves the main view of the dashboard (a quiz starts).
ScannerUnmount ==
  /\ scMounted
  /\ ScannerGone
  /\ UNCHANGED <<currentUser, isOffline, storage, appPending, drains,
                 attendanceRecords, now, proc, enqueued, buildVars, apiVars, quizVars>>

\* LoginScreen calls onLoginSuccess: handleLoginSuccess (App.tsx:15-17).
handleLoginSuccess ==
  /\ currentUser = NULL
  /\ currentUser' = Student
  /\ UNCHANGED <<isOffline, storage, appPending, drains, attendanceRecords,
                 now, scanVars, enqueued, buildVars, apiVars, quizVars>>

\* For comparison: a logout that also resets the connectivity flag.
handleLogout_resetsConnectivity ==
  /\ currentUser # NULL
  /\ currentUser' = NULL
  /\ isOffline' = FALSE
  /\ IF scMounted THEN ScannerGone
     ELSE UNCHANGED <<scMounted, qrState, scPending, cIsOffline, cPending,
                      locationError, pendingScanData, scanCompleted, message>>
  /\ UNCHANGED <<storage, appPending, drains, attendanceRecords,
                 now, proc, enqueued, buildVars, apiVars, quizVars>>

\* "Logout" of the dashboard header: handleLogout (App.tsx:19-21); the
\* dashboard, with the QRCodeScanner if it is shown, unmounts.
handleLogout ==
  /\ currentUser # NULL
  /\ currentUser' = NULL
  /\ IF scMounted THEN ScannerGone
     ELSE UNCHANGED <<scMounted, qrState, scPending, cIsOffline, cPending,
                      locationError, pendingScanData, scanCompleted, message>>
  /\ UNCHANGED <<isOffline, storage, appPending, drains, attendanceRecords,
                 now, proc, enqueued, buildVars, apiVars, quizVars>>

\* For comparison: an onScanSuccess that does not pause the scanner.
ScanDecode_noPause(decodedText) ==
  /\ scMounted
  /\ qrState = "SCANNING"
  /\ proc.pc = "idle"
  /\ message' = "locating"
  /\ proc' = [pc |-> "locating", via |-> "scan", code |-> decodedText,
              rec |-> None]
  /\ UNCHANGED <<currentUser, isOffline, storage, appPending, drains,
                 attendanceRecords,
                 now, scMounted, qrState, scPending, cIsOffline, cPending,
                 locationError, pendingScanData, scanCompleted, enqueued,
                 buildVars, apiVars, quizVars>>

\* A frame decodes: onScanSuccess up to its first await (lines 234-247).
\* The guard of line 236 reads the locationError and scanCompleted of the
\* first render, null and false.
ScanDecode(decodedText) ==
  /\ scMounted
  /\ qrState = "SCANNING"
  /\ proc.pc = "idle"
  /\ qrState' = "PAUSED"
  /\ message' = "locating"
  /\ proc' = [pc |-> "locating", via |-> "scan", code |-> decodedText,
              rec |-> None]
  /\ UNCHANGED <<currentUser, isOffline, storage, appPending, drains,
                 attendanceRecords,
                 now, scMounted, scPending, cIsOffline, cPending,
                 locationError, pendingScanData, scanCompleted, enqueued,
                 buildVars, apiVars, quizVars>>

\* A setter of the component's state does nothing once it is unmounted.
SetState(new, old) == IF scMounted THEN new ELSE old

\* processAttendance, lines 204-231, as the branch it takes and the record
\* it builds at clock reading t: it throws, or appends to the queue
\* (isOffline), or submits.
processOutcome(location, decodedText, offline, t) ==
  IF InvalidCode(decodedText) THEN [kind |-> "throws", rec |-> None]
  ELSE [kind |-> IF offline THEN "queued" ELSE "submitted",
        rec |-> Some(attendanceData(location, decodedText, t))]

\* processAttendance(location, decodedText) run by a closure that holds
\* `offline` and `pending` as its isOffline and pendingAttendance, up to its
\* await, with what its caller does when it throws or returns.
\* via "scan": called by onScanSuccess (lines 248-255);
\* via "manual": called by handleMarkWithoutLocation (lines 260-270).
processAttendance(location, decodedText, offline, pending, via) ==
  LET out == processOutcome(location, decodedText, offline, now + 1)
      set == useLocalStorageSet(pending \o out.rec)
  IN IF out.kind = "throws"
     THEN /\ locationError' =
               IF via = "scan" THEN SetState("invalid", locationError)
               ELSE SetState(NULL, locationError)
          /\ pendingScanData' =
               IF via = "scan" THEN SetState(Some(decodedText), pendingScanData)
               ELSE SetState(None, pendingScanData)
          /\ message' = IF via = "scan" THEN message
                        ELSE SetState("error", message)
          /\ proc' = NoProc
          /\ UNCHANGED <<storage, scPending, scanCompleted, now, enqueued>>
     ELSE IF out.kind = "queued"
     THEN /\ now < MaxClock
          /\ now' = now + 1
          /\ storage' = set.stored
          /\ scPending' = SetState(set.state, scPending)
          /\ enqueued' = Enqueue(enqueued, out.rec[1])
          /\ message' = SetState("savedOffline", message)
          /\ scanCompleted' = SetState(TRUE, scanCompleted)
          /\ locationError' =
               IF via = "scan" THEN locationError
               ELSE SetState(NULL, locationError)
          /\ pendingScanData' =
               IF via = "scan" THEN pendingScanData
               ELSE SetState(None, pendingScanData)
          /\ proc' = NoProc
     ELSE /\ now < MaxClock
          /\ now' = now + 1
          /\ proc' = [pc |-> "submitting", via |-> via, code |-> decodedText,
                      rec |-> out.rec]
          /\ locationError' =
               IF via = "scan" THEN locationError
               ELSE SetState(NULL, locationError)
          /\ UNCHANGED <<storage, scPending, enqueued, message, scanCompleted,
                         pendingScanData>>

\* locationService.getCurrentPosition() returns to onScanSuccess
\* (lines 247-255).
LocationResult(ok) ==
  /\ proc.pc = "locating"
  /\ IF ok
     THEN processAttendance(Position, proc.code, cIsOffline, cPending, "scan")
     ELSE /\ locationError' = SetState("location", locationError)
          /\ pendingScanData' = SetState(Some(proc.code), pendingScanData)
          /\ proc' = NoProc
          /\ UNCHANGED <<storage, scPending, scanCompleted, message, now,
                         enqueued>>
  /\ cIsOffline' = IF scMounted THEN cIsOffline ELSE FALSE
  /\ cPending' = IF scMounted THEN cPending ELSE <<>>
  /\ UNCHANGED <<currentUser, isOffline, appPending, drains, attendanceRecords, scMounted,
                 qrState, buildVars, apiVars, quizVars>>

\* For comparison: a handler that, like onScanSuccess, is the one of the
\* first render.
MarkWithoutLocation_firstRender ==
  /\ scMounted
  /\ locationError # NULL
  /\ proc.pc = "idle"
  /\ IF pendingScanData = None \/ pendingScanData = Some(<<>>)
     THEN UNCHANGED <<storage, scPending, locationError, pendingScanData,
                      scanCompleted, message, proc, now, enqueued>>
     ELSE processAttendance(NoLocation, pendingScanData[1], cIsOffline,
                            cPending, "manual")
  /\ UNCHANGED <<currentUser, isOffline, appPending, drains, attendanceRecords, scMounted,
                 qrState, cIsOffline, cPending, buildVars, apiVars, quizVars>>

\* "Mark Attendance Anyway" (shown while locationError is set):
\* handleMarkWithoutLocation of the current render (lines 258-271).
MarkWithoutLocation ==
  /\ scMounted
  /\ locationError # NULL
  /\ proc.pc = "idle"
  /\ IF pendingScanData = None \/ pendingScanData = Some(<<>>)
     THEN \* if(!pendingScanData) return;
          UNCHANGED <<storage, scPending, locationError, pendingScanData,
                      scanCompleted, message, proc, now, enqueued>>
     ELSE processAttendance(NoLocation, pendingScanData[1], isOffline,
                            scPending, "manual")
  /\ UNCHANGED <<currentUser, isOffline, appPending, drains, attendanceRecords, scMounted,
                 qrState, cIsOffline, cPending, buildVars, apiVars, quizVars>>

\* mockApiService.markAttendance returns to processAttendance (lines 227-230)
\* and to its caller (lines 249-255, or 263-270).
SubmitResult(ok) ==
  /\ proc.pc = "submitting"
  /\ ok => StoreHasRoom
  /\ attendanceRecords' =
       IF ok THEN markAttendance(attendanceRecords, proc.rec[1], now)
       ELSE attendanceRecords
  /\ message' = IF ok THEN SetState("marked", message)
                ELSE IF proc.via = "manual" THEN SetState("error", message)
                ELSE message
  /\ scanCompleted' = IF ok THEN SetState(TRUE, scanCompleted) ELSE scanCompleted
  /\ locationError' =
       IF ~ok /\ proc.via = "scan" THEN SetState("network", locationError)
       ELSE locationError
  /\ pendingScanData' =
       IF proc.via = "manual" THEN SetState(None, pendingScanData)
       ELSE IF ~ok THEN SetState(Some(proc.code), pendingScanData)
       ELSE pendingScanData
  /\ proc' = NoProc
  /\ UNCHANGED <<currentUser, isOffline, storage, appPending, drains, now,
                 scMounted, qrState, scPending, cIsOffline, cPending,
                 enqueued, buildVars, apiVars, quizVars>>

\* "Scan Another Code" (shown while scanCompleted and no locationError):
\* handleResumeScanning (lines 273-280).
ResumeScanning ==
  /\ scMounted
  /\ scanCompleted
  /\ locationError = NULL
  /\ scanCompleted' = FALSE
  /\ message' = "scan"
  /\ qrState' = IF qrState = "PAUSED" THEN "SCANNING" ELSE qrState
  /\ UNCHANGED <<currentUser, isOffline, storage, appPending, drains,
                 attendanceRecords,
                 now, scMounted, scPending, cIsOffline, cPending,
                 locationError, pendingScanData, proc, enqueued, buildVars, apiVars, quizVars>>

\* The page is loaded again: every component state is rebuilt from
\* localStorage, requests in flight are gone, and the effect of lines 59-64
\* runs on the first render.
Reload ==
  /\ appPending' = useLocalStorageInit(storage)
  /\ drains' = syncOfflineData(useLocalStorageInit(storage), isOffline,
                               [k \in 1..MaxDrains |-> NoDrain])
  /\ scMounted' = FALSE
  /\ qrState' = "NOT_STARTED"
  /\ scPending' = <<>>
  /\ cIsOffline' = FALSE
  /\ cPending' = <<>>
  /\ locationError' = NULL
  /\ pendingScanData' = None
  /\ scanCompleted' = FALSE
  /\ message' = "scan"
  /\ proc' = NoProc
  /\ UNCHANGED <<currentUser, isOffline, storage, attendanceRecords, now, enqueued,
                 buildVars, apiVars, quizVars>>

Next ==
  \/ GoOnline
  \/ GoOffline
  \/ \E k \in 1..MaxDrains : \E ok \in BOOLEAN : DrainResolve(k, ok)
  \/ Tick
  \/ ScannerMount
  \/ \E ok \in BOOLEAN : ScannerStarted(ok)
  \/ ScannerUnmount
  \/ \E c \in ScanCodes : ScanDecode(c)
  \/ \E ok \in BOOLEAN : LocationResult(ok)
  \/ MarkWithoutLocation
  \/ \E ok \in BOOLEAN : SubmitResult(ok)
  \/ ResumeScanning
  \/ handleLoginSuccess
  \/ handleLogout
  \/ Reload

Spec == Init /\ [][Next]_vars

\* ------------------------------------------- processAttendance on its own
\* processAttendance, lines 221-225, run with the queue `pending` while the
\* key holds `stored`, the write of the key succeeding or not: what the key
\* holds afterwards, the message shown, and whether processAttendance throws.
enqueueOutcome(pending, stored, rec, writeOk) ==
  LET thrown == IF writeOk THEN FALSE
                ELSE useLocalStorageSetFailed(pending \o <<rec>>, stored).thrown
  IN [writeOk |-> writeOk,
      stored |-> IF writeOk THEN useLocalStorageSet(pending \o <<rec>>).stored
                 ELSE useLocalStorageSetFailed(pending \o <<rec>>, stored).stored,
      thrown |-> thrown,
      message |-> IF thrown THEN "locating" ELSE "savedOffline"]

Alphabet == {"a", "-"}
Strings(n) == UNION {[1..m -> Alphabet] : m \in 0..n}
Stamps == 1..MaxStamp
\* Every code generateCode makes for a teacher id addTeacher makes.
GeneratedCodes == {generateCode(TeacherId(u), t) : u \in Stamps, t \in Stamps}
BuildCodes == Strings(MaxCodeLen) \cup GeneratedCodes \cup ScanCodes \cup {NoDashCode}

InitBuild ==
  /\ Init
  /\ currentUser = Student
  /\ ~isOffline

\* Any code, with or without location, online or offline.
BuildInput ==
  /\ bOut = None
  /\ bCode = <<>> /\ bLoc = NoLocation /\ ~bOffline
  /\ bCode' \in BuildCodes
  /\ bLoc' \in {Position, NoLocation}
  /\ bOffline' \in BOOLEAN
  /\ bOut' = Some(processOutcome(bLoc', bCode', bOffline', now))
  /\ \E writeOk \in BOOLEAN :
       bEnq' = IF bOut'[1].kind = "queued"
               THEN Some(enqueueOutcome(<<>>, <<>>, bOut'[1].rec[1], writeOk))
               ELSE None
  /\ UNCHANGED <<currentUser, isOffline, storage, appPending, drains,
                 attendanceRecords,
                 now, scanVars, enqueued, apiVars, quizVars>>

NextBuild == BuildInput

SpecBuild == InitBuild /\ [][NextBuild]_vars


\* ------------------------------------------ mockApiService: the accounts
\* Date.now() as the mock API reads it: the clock of the model, counted from
\* a reading that lies after the numbers of the initial ids.
DateNow == Epoch + now

\* const { password, ...userWithoutPassword } = user
WithoutPassword(user) == [f \in DOMAIN user \ {"password"} |-> user[f]]

\* { ...a, ...b }
Spread(a, b) ==
  [f \in DOMAIN a \cup DOMAIN b |-> IF f \in DOMAIN b THEN b[f] ELSE a[f]]

\* String.prototype.toLowerCase on the names the model uses.
toLowerCase(str) ==
  CASE str = "Dr. Evelyn Reed" -> "dr. evelyn reed"
    [] str = "Mr. Samuel Chen" -> "mr. samuel chen"
    [] str = "Alice Johnson" -> "alice johnson"
    [] str = "Bob Williams" -> "bob williams"
    [] str = "Charlie Brown" -> "charlie brown"
    [] str = "New Teacher" -> "new teacher"
    [] str = "New Student" -> "new student"
    [] OTHER -> str

Returned1(op, user) == [op |-> op, thrown |-> FALSE, users |-> <<user>>]
Thrown(op) == [op |-> op, thrown |-> TRUE, users |-> <<>>]

\* users.some(u => u.email === email) over teachers and students.
EmailTaken(ts, ss, email) ==
  \/ \E i \in DOMAIN ts : ts[i].email = email
  \/ \E i \in DOMAIN ss : ss[i].email = email

\* login (lines 624-637) over the accounts ts and ss: what it returns.
loginResult(ts, ss, identifier, password) ==
  LET allUsers == ts \o ss
      found == {i \in DOMAIN allUsers :
                  toLowerCase(allUsers[i].name) = toLowerCase(identifier)}
  IN IF identifier = "admin" /\ password = "123"
     THEN Returned1("login", MOCK_ADMIN)
     ELSE IF /\ found # {}
             /\ "password" \in DOMAIN allUsers[Lowest(found)]
             /\ allUsers[Lowest(found)].password = password
     THEN Returned1("login", WithoutPassword(allUsers[Lowest(found)]))
     ELSE Thrown("login")

\* At most MaxAccounts accounts are added to the initial ones.
AccountsHaveRoom ==
  Len(teachers) + Len(students)
    < Len(initialTeachers) + Len(initialStudents) + MaxAccounts

NonApiVars ==
  <<currentUser, isOffline, storage, appPending, drains, attendanceRecords,
    now, scanVars, enqueued, buildVars, quizVars>>

\* mockApiService.login
login(identifier, password) ==
  /\ apiRet' = loginResult(teachers, students, identifier, password)
  /\ UNCHANGED <<teachers, students, NonApiVars>>

\* mockApiService.registerStudent (lines 638-648)
registerStudent(userData) ==
  /\ IF EmailTaken(teachers, students, userData.email)
     THEN /\ apiRet' = Thrown("registerStudent")
          /\ UNCHANGED students
     ELSE LET newStudent ==
                Spread(userData, [id |-> StudentPrefix \o Decimal(DateNow),
                                  role |-> "Student"])
          IN /\ AccountsHaveRoom
             /\ students' = Append(students, newStudent)
             /\ apiRet' = Returned1("registerStudent",
                                    WithoutPassword(newStudent))
  /\ UNCHANGED <<teachers, NonApiVars>>

\* mockApiService.getTeachers (lines 651-657)
getTeachers ==
  /\ apiRet' = [op |-> "getTeachers", thrown |-> FALSE,
                users |-> [i \in DOMAIN teachers |->
                             WithoutPassword(teachers[i])]]
  /\ UNCHANGED <<teachers, students, NonApiVars>>

\* mockApiService.addTeacher (lines 658-668)
addTeacher(teacherData) ==
  /\ IF EmailTaken(teachers, students, teacherData.email)
     THEN /\ apiRet' = Thrown("addTeacher")
          /\ UNCHANGED teachers
     ELSE LET newTeacher ==
                Spread(teacherData, [id |-> TeacherId(DateNow),
                                     role |-> "Teacher"])
          IN /\ AccountsHaveRoom
             /\ teachers' = Append(teachers, newTeacher)
             /\ apiRet' = Returned1("addTeacher", WithoutPassword(newTeacher))
  /\ UNCHANGED <<students, NonApiVars>>

\* !teacher.password: the payload has no password, or an empty one.
NoPassword(teacher) ==
  "password" \notin DOMAIN teacher \/ teacher.password = ""

\* For comparison: an update that always takes the password of the payload.
updatedTeacherData_payloadPassword(originalTeacher, teacher) ==
  Spread(originalTeacher, teacher)

\* updateTeacher, lines 674-680: the account stored for `teacher`.
updatedTeacherData(originalTeacher, teacher) ==
  IF NoPassword(teacher)
  THEN Spread(Spread(originalTeacher, teacher),
              [password |-> originalTeacher.password])
  ELSE Spread(originalTeacher, teacher)

\* teachers.findIndex(t => t.id === id), 0 for -1.
findIndex(ts, id) ==
  IF \E i \in DOMAIN ts : ts[i].id = id
  THEN Lowest({i \in DOMAIN ts : ts[i].id = id})
  ELSE 0

\* mockApiService.updateTeacher (lines 669-686)
updateTeacher(teacher) ==
  LET index == findIndex(teachers, teacher.id)
  IN /\ IF index = 0
        THEN /\ apiRet' = Thrown("updateTeacher")
             /\ UNCHANGED teachers
        ELSE /\ teachers' =
                  [teachers EXCEPT ![index] =
                     updatedTeacherData(teachers[index], teacher)]
             /\ apiRet' = Returned1("updateTeacher",
                                    WithoutPassword(teachers'[index]))
     /\ UNCHANGED <<students, NonApiVars>>

\* mockApiService.deleteTeacher (lines 687-692)
deleteTeacher(teacherId) ==
  /\ teachers' = SelectSeq(teachers, LAMBDA t : t.id # teacherId)
  /\ apiRet' = [op |-> "deleteTeacher", thrown |-> FALSE, users |-> <<>>]
  /\ UNCHANGED <<students, NonApiVars>>

\* mockApiService.getStudents (lines 695-698)
getStudents ==
  /\ apiRet' = [op |-> "getStudents", thrown |-> FALSE, users |-> students]
  /\ UNCHANGED <<teachers, students, NonApiVars>>

\* What the LoginScreen and the TeacherForm hand to the API.
Identifiers ==
  {"admin", "Dr. Evelyn Reed", "dr. evelyn reed", "Mr. Samuel Chen",
   "Alice Johnson", "New Teacher"}
LoginPasswords == {"123", "password123", "secret"}
FormNames == {"Dr. Evelyn Reed", "New Teacher"}
FormEmails == {"e.reed@school.com", "new@school.com"}
\* The ids of the teachers a list can show: the initial ones and the one
\* addTeacher makes (a listed teacher may be deleted by now).
TeacherIds == {TeacherId(1), TeacherId(2), TeacherId(DateNow)}

\* registerStudent({ name, email: identifier, password, enrollmentNumber })
Registrations ==
  {[name |-> "New Student", email |-> e, password |-> "secret"] :
     e \in FormEmails}
\* The new teacher of the TeacherForm (the password is required).
NewTeachers ==
  {[name |-> n, email |-> e, password |-> "secret"] :
     n \in FormNames, e \in FormEmails}
\* { ...editingTeacher, ...teacherData }: the edited teacher, with the
\* password of the form ('' when left blank), and a payload without one.
EditedTeachers ==
  {[id |-> i, name |-> n, email |-> e, role |-> "Teacher", password |-> pw] :
     i \in TeacherIds, n \in FormNames, e \in FormEmails,
     pw \in {"", "secret"}}
  \cup {[id |-> i, name |-> n, email |-> e, role |-> "Teacher"] :
          i \in TeacherIds, n \in FormNames, e \in FormEmails}

NextApi ==
  \/ \E identifier \in Identifiers : \E password \in LoginPasswords :
       login(identifier, password)
  \/ \E userData \in Registrations : registerStudent(userData)
  \/ getTeachers
  \/ \E teacherData \in NewTeachers : addTeacher(teacherData)
  \/ \E teacher \in EditedTeachers : updateTeacher(teacher)
  \/ \E teacherId \in TeacherIds : deleteTeacher(teacherId)
  \/ getStudents

\* The mock API with its initial data; nobody is logged in yet.
InitApi ==
  /\ Init
  /\ currentUser = NULL
  /\ ~isOffline

SpecApi == InitApi /\ [][NextApi]_vars

\* ------------------------------------------------------------ the quiz
QuizPrefix == <<"q", "u", "i", "z">>

\* A quiz as its questions' correctAnswerIndex values (title, question texts
\* and option texts are shown only).
QuestionSets ==
  UNION {[1..n -> 0..(NumOptions - 1)] : n \in 1..MaxQuestions}
\* answers: (number | null)[]: for each question the option chosen, or null.
Answers(n) == [1..n -> {Some(o) : o \in 0..(NumOptions - 1)} \cup {None}]

NonQuizVars ==
  <<currentUser, isOffline, storage, appPending, drains, attendanceRecords,
    now, scanVars, enqueued, buildVars, apiVars>>

\* mockApiService.saveQuiz, line 720: the quiz as it is stored.
saveQuiz(newQuiz) == Spread(newQuiz, [id |-> QuizPrefix \o Decimal(DateNow)])

\* mockApiService.getQuizById (lines 736-739), null for undefined.
getQuizById(quizId) ==
  IF \E i \in DOMAIN quizzes : quizzes[i].id = quizId
  THEN Some(quizzes[Lowest({i \in DOMAIN quizzes : quizzes[i].id = quizId})])
  ELSE None

\* QuizGenerator.handleGenerate, lines 370-378: generateQuiz has returned
\* `questions`; newQuiz is built and handed to saveQuiz.  (When generateQuiz
\* throws, only the error message is set.)
handleGenerate(questions) ==
  /\ currentUser = Student
  /\ view = "main"
  /\ gen = None
  /\ Len(quizzes) < MaxQuizzes
  /\ gen' = Some([id |-> QuizPrefix \o <<"-">> \o Decimal(DateNow),
                  questions |-> questions])
  /\ UNCHANGED <<quizzes, view, activeQuiz, quizResult, quiz, fetch,
                 NonQuizVars>>

\* saveQuiz returns (lines 718-723) and handleGenerate goes on, line 379:
\* onQuizGenerated(newQuiz), which is handleQuizGenerated (lines 525-528).
handleQuizGenerated ==
  /\ gen # None
  /\ quizzes' = Append(quizzes, saveQuiz(gen[1]))
  /\ activeQuiz' = gen
  /\ view' = "quiz"
  /\ gen' = None
  /\ UNCHANGED <<quizResult, quiz, fetch, NonQuizVars>>

\* score of QuizView.handleSubmit, lines 435-445.
Score(questions, answers) ==
  (Cardinality({i \in DOMAIN questions : answers[i] = Some(questions[i])}) * 100)
    \div Len(questions)

\* QuizView.handleSubmit (lines 434-449) with submitQuiz (725-731) and
\* handleQuizFinish (530-534); QuizResults mounts and its effect calls
\* fetchQuiz.
handleSubmit(answers) ==
  /\ view = "quiz"
  /\ activeQuiz # None
  /\ DOMAIN answers = DOMAIN activeQuiz[1].questions
  /\ quizResult' = Some([quizId |-> activeQuiz[1].id,
                         studentId |-> StudentId,
                         score |-> Score(activeQuiz[1].questions, answers),
                         answers |-> answers,
                         submittedAt |-> now])
  /\ activeQuiz' = None
  /\ view' = "results"
  /\ quiz' = None
  /\ fetch' = "pending"
  /\ UNCHANGED <<quizzes, gen, NonQuizVars>>

\* QuizResults: getQuizById returns to fetchQuiz (lines 484-490).
fetchQuiz ==
  /\ view = "results"
  /\ quizResult # None
  /\ fetch = "pending"
  /\ quiz' = getQuizById(quizResult[1].quizId)
  /\ fetch' = "done"
  /\ UNCHANGED <<quizzes, view, activeQuiz, quizResult, gen, NonQuizVars>>

\* The StudentDashboard is mounted again (the page is loaded again, or the
\* student logs out and in): its state and that of its views start anew;
\* the stored quizzes stay.
DashboardRemount ==
  /\ view # "main" \/ gen # None
  /\ view' = "main"
  /\ activeQuiz' = None
  /\ quizResult' = None
  /\ quiz' = None
  /\ gen' = None
  /\ fetch' = "none"
  /\ UNCHANGED <<quizzes, NonQuizVars>>

NextQuiz ==
  \/ \E questions \in QuestionSets : handleGenerate(questions)
  \/ handleQuizGenerated
  \/ \E n \in 1..MaxQuestions : \E answers \in Answers(n) : handleSubmit(answers)
  \/ fetchQuiz
  \/ DashboardRemount
  \/ Tick

\* The student is logged in and the dashboard shows its main view.
InitQuiz ==
  /\ Init
  /\ currentUser = Student
  /\ ~isOffline

SpecQuiz == InitQuiz /\ [][NextQuiz]_vars

\* ------------------------------------------------------------ properties
\* A call of syncOfflineData starts a drain in slot k in this step.
DrainStarts(k) ==
  /\ drains'[k] # drains[k]
  /\ drains'[k].settled = "no"
  /\ Outstanding(drains'[k]) = DOMAIN drains'[k].res

\* C1: a drain that starts hands to markAttendance exactly the records that
\* were captured and enqueued offline and not yet cleared, in the order of
\* their capture.
C1_EnqueueDrainRoundTrip ==
  [][\A k \in 1..MaxDrains :
       DrainStarts(k) /\ enqueued.offline
         => drains'[k].snap = enqueued.recs]_vars

\* Promise.all of the drain in slot k settles in this step.
Settles(k) ==
  /\ drains[k].settled = "no"
  /\ drains'[k].settled \in {"cleared", "failed"}

Count(r, q) == Cardinality({i \in DOMAIN q : q[i] = r})

\* C2: when a drain settles, every record that was enqueued after the drain
\* took its snapshot is part of the batch or is in the persisted queue
\* exactly once.
C2_MidDrainEnqueueKept ==
  [][\A k \in 1..MaxDrains :
       Settles(k) =>
         \A r \in Range(storage) \ Range(drains[k].q0) :
           r \in Range(drains[k].snap) \/ Count(r, storage') = 1]_vars

\* The last outstanding submission of the drain in slot k returns in this step.
Returned(k) ==
  /\ Outstanding(drains[k]) # {}
  /\ Outstanding(drains'[k]) = {}
  /\ drains'[k].snap = drains[k].snap

SomeFulfilled(res) == \E i \in DOMAIN res : res[i] = "ok"
SomeRejected(res) == \E i \in DOMAIN res : res[i] = "fail"
AllRejected(res) == \A i \in DOMAIN res : res[i] = "fail"

\* C3: when all submissions of a drain have returned, some fulfilled and some
\* rejected, every record of the batch is still in the persisted queue.
C3_PartialFailureKeepsBatch ==
  [][\A k \in 1..MaxDrains :
       /\ Returned(k)
       /\ SomeFulfilled(drains'[k].res)
       /\ SomeRejected(drains'[k].res)
       => Range(drains[k].snap) \subseteq Range(storage')]_vars

IsPrefix(p, q) == Len(p) <= Len(q) /\ SubSeq(q, 1, Len(p)) = p

\* C4: when all submissions of a drain have returned and every one was
\* rejected, the persisted queue still begins with the queue as it was when
\* the drain started: same records, same order, none lost, none duplicated.
C4_FailedDrainIdempotent ==
  [][\A k \in 1..MaxDrains :
       Returned(k) /\ AllRejected(drains'[k].res)
         => IsPrefix(drains[k].q0, storage')]_vars

\* This step takes a record out of the persisted queue.
Removes == \E r \in Range(storage) : Count(r, storage') < Count(r, storage)

\* C5: a step that takes a record out of the persisted queue is the step in
\* which a drain with every submission fulfilled clears it, and the queue
\* held exactly the batch of that drain.
C5_OnlySuccessfulDrainRemoves ==
  [][Removes =>
       \E k \in 1..MaxDrains :
         /\ Settles(k)
         /\ drains'[k].settled = "cleared"
         /\ storage = drains[k].snap
         /\ storage' = <<>>]_vars

\* Connected, and nothing in flight: no drain with a submission outstanding,
\* no scan being processed.
Quiet ==
  /\ ~isOffline
  /\ proc.pc = "idle"
  /\ \A k \in 1..MaxDrains : Outstanding(drains[k]) = {}

\* C6: once connectivity is back, every record was captured offline, no drain
\* was rejected and nothing is in flight any more, no record captured without
\* location (location null) is left in the persisted queue: it was submitted.
C6_ReconnectEmptiesQueue ==
  (/\ Quiet
   /\ enqueued.offline
   /\ \A k \in 1..MaxDrains : drains[k].settled # "failed")
  => \A i \in DOMAIN storage : storage[i].location # NoLocation

\* C7: on an offline-to-online transition, the batch of a drain that was
\* rejected is submitted again by a drain that starts in this step.
C7_RejectedBatchRetried ==
  [][isOffline /\ ~isOffline' =>
       \A j \in 1..MaxDrains :
         drains[j].settled = "failed" =>
           \E k \in 1..MaxDrains :
             /\ DrainStarts(k)
             /\ Range(drains[j].snap) \subseteq Range(drains'[k].snap)]_vars

\* processAttendance hands a record to mockApiService.markAttendance /
\* appends a record to the persisted queue in this step.
Submits == proc.pc # "submitting" /\ proc'.pc = "submitting"
Enqueues == storage' # storage /\ storage' # <<>>

\* C8: a capture is submitted, the queue unchanged, exactly when the App is
\* connected at that time, and enqueued, nothing submitted, exactly when it
\* is disconnected.
C8_ConnectivityAtCapture ==
  [][Submits \/ Enqueues =>
       /\ Submits <=> ~isOffline
       /\ Enqueues <=> isOffline]_vars

\* C9: a code without '-' makes processAttendance throw.
C9_NoSeparatorThrows ==
  bOut # None /\ "-" \notin Range(bCode) => bOut[1].kind = "throws"

\* C10: for the code generateCode makes for any teacher id of the system,
\* processAttendance builds a record whose teacherId is that teacher id and
\* whose sessionId is the whole code.
C10_TeacherIdExtracted ==
  \A u \in Stamps, t \in Stamps :
    bOut # None /\ bCode = generateCode(TeacherId(u), t) =>
      /\ bOut[1].kind # "throws"
      /\ bOut[1].rec[1].teacherId = TeacherId(u)
      /\ bOut[1].rec[1].sessionId = bCode

C10_Witness ==
  /\ bOut # None
  /\ bCode = generateCode(TeacherId(MaxStamp), 3)
  /\ bOut[1].kind = "queued"
  /\ bOut[1].rec[1].teacherId = TeacherId(MaxStamp)

\* C11: processAttendance throws, and builds no record to submit or queue,
\* for the empty code and for every code with nothing before its first '-'.
C11_EmptyPartsThrow ==
  bOut # None /\ (bCode = <<>> \/ FirstDash(bCode) = 1) =>
    bOut[1].kind = "throws" /\ bOut[1].rec = None

C11_Witness ==
  /\ bOut # None
  /\ bCode # <<>>
  /\ FirstDash(bCode) = 1
  /\ Len(bCode) = MaxCodeLen
  /\ bOut[1].kind = "throws"

\* The user takes "Mark Attendance Anyway" in this step, offered because the
\* location of a scanned, well-formed code could not be obtained.
MarksAnyway ==
  /\ scMounted /\ scMounted'
  /\ proc.pc = "idle"
  /\ locationError = "location"
  /\ pendingScanData # None
  /\ ~InvalidCode(pendingScanData[1])
  /\ locationError' = NULL

\* C12: marking attendance anyway after the location failed builds the record
\* of the scanned code with location null; it is appended to the persisted
\* queue, nothing submitted, when the App is offline, and handed to
\* markAttendance, the queue unchanged, when it is online.
C12_MarkWithoutLocation ==
  [][MarksAnyway =>
       LET rec == attendanceData(NoLocation, pendingScanData[1], now')
       IN IF isOffline
          THEN Enqueues /\ ~Submits /\ storage'[Len(storage')] = rec
          ELSE Submits /\ ~Enqueues /\ proc'.rec = Some(rec)]_vars

C12_Witness ==
  /\ scMounted
  /\ isOffline
  /\ ~cIsOffline
  /\ locationError = NULL
  /\ pendingScanData = None
  /\ message = "savedOffline"
  /\ storage # <<>>
  /\ storage[Len(storage)].location = NoLocation

AppMounts(k) ==
  /\ appPending' = useLocalStorageInit(storage)
  /\ ~scMounted'
  /\ proc' = NoProc
  /\ \A j \in 1..MaxDrains \ {k} : drains'[j] = NoDrain

C14_NoDrainProgressOffline ==
  [][isOffline /\ isOffline' =>
       \A k \in 1..MaxDrains :
         /\ ~DrainStarts(k)
         /\ ~Settles(k)
         /\ drains'[k].snap = drains[k].snap
              => drains'[k].res = drains[k].res]_vars

\* The submission of entry i of the drain in slot k is fulfilled in this step.
Fulfils(k, i) ==
  /\ ~DrainStarts(k)
  /\ drains'[k].snap = drains[k].snap
  /\ i \in DOMAIN drains[k].res
  /\ drains[k].res[i] = "out"
  /\ drains'[k].res[i] = "ok"

\* The submission of the capture in flight is fulfilled in this step.
CaptureFulfils ==
  /\ proc.pc = "submitting"
  /\ proc'.pc = "idle"
  /\ attendanceRecords' # attendanceRecords

C16_ClearedAfterAllResolved ==
  \A k \in 1..MaxDrains :
    drains[k].settled = "cleared" =>
      Outstanding(drains[k]) = {} /\ ~SomeRejected(drains[k].res)

C16_Witness ==
  /\ storage = <<>>
  /\ appPending = <<>>
  /\ \E k \in 1..MaxDrains :
       /\ drains[k].settled = "cleared"
       /\ Len(drains[k].snap) = 2
       /\ \A i \in DOMAIN drains[k].snap :
            \E j \in DOMAIN attendanceRecords :
              attendanceRecords[j].timestamp = drains[k].snap[i].timestamp

\* C17: Promise.all of a drain settles, fulfilled or rejected, only in the
\* step in which the last of its submissions returns.
C17_SettlesAfterAllReturned ==
  [][\A k \in 1..MaxDrains :
       Settles(k) => Outstanding(drains'[k]) = {}]_vars

\* A submission of the drain in slot k returns, or the drain settles, in
\* this step.
DrainMoves(k) ==
  \/ Settles(k)
  \/ /\ ~DrainStarts(k)
     /\ drains'[k].snap = drains[k].snap
     /\ drains'[k].res # drains[k].res

\* C18: a step that changes the connectivity flag is no login or logout, no
\* step of the scanner (scan, location, enqueue, submission), no change of
\* the queue or of the store and no return of a drain's submission: it is
\* the online or the offline event, and the flag is left alone by every
\* other step.
C18_OnlyConnectivityEvents ==
  [][isOffline' # isOffline =>
       /\ currentUser' = currentUser
       /\ scanVars' = scanVars
       /\ storage' = storage
       /\ appPending' = appPending
       /\ attendanceRecords' = attendanceRecords
       /\ \A k \in 1..MaxDrains : ~DrainMoves(k)
       /\ \/ isOffline /\ GoOnline
          \/ ~isOffline /\ GoOffline]_vars

C18_Witness ==
  /\ currentUser = NULL
  /\ isOffline
  /\ storage # <<>>
  /\ Len(attendanceRecords) > Len(initialAttendance)
  /\ \E k \in 1..MaxDrains :
       drains[k].settled = "failed" /\ Outstanding(drains[k]) = {}

\* C19: when "Mark Attendance Anyway" is taken for a malformed code (the
\* error of processAttendance is then shown), the scanner scans again or
\* "Scan Another Code" is offered.
C19_RescanAfterMalformedCode ==
  [][(/\ scMounted /\ scMounted'
      /\ proc.pc = "idle"
      /\ pendingScanData # None
      /\ InvalidCode(pendingScanData[1])
      /\ pendingScanData' = None)
     => /\ message' = "error"
        /\ qrState' = "SCANNING" \/ (scanCompleted' /\ locationError' = NULL)]_vars

\* C20: when the write of the queue fails, processAttendance throws to its
\* caller and the "saved locally" message is not shown.
C20_FailedWriteReported ==
  bEnq # None /\ ~bEnq[1].writeOk =>
    bEnq[1].thrown /\ bEnq[1].message # "savedOffline"

\* C21: once the scanner component is unmounted the capture device is not
\* held: the Html5Qrcode instance is neither scanning nor paused.
C21_DeviceReleasedOnTeardown ==
  ~scMounted => ~isScanning

\* Every record of a queue (persisted, the App's and the scanner's copy, the
\* batch of a drain) and of the remote store.
HeldRecords ==
  Range(storage) \cup Range(appPending) \cup Range(scPending)
    \cup Range(cPending) \cup Range(attendanceRecords)
    \cup UNION {Range(drains[k].snap) : k \in 1..MaxDrains}

\* C22: in every record of the pending queue and of the remote store the
\* location is a pair of latitude and longitude, or null: never one
\* coordinate alone.
C22_LocationPairOrNull ==
  \A r \in HeldRecords : Len(r.location) \in {0, 2}

C22_Witness ==
  /\ \E r \in Range(storage) : r.location = NoLocation
  /\ \E r \in Range(storage) : r.location = Position
  /\ \E j \in DOMAIN attendanceRecords :
       j > Len(initialAttendance) /\ attendanceRecords[j].location = Position
  /\ \E j \in DOMAIN attendanceRecords :
       j > Len(initialAttendance) /\ attendanceRecords[j].location = NoLocation

\* The drains that have a submission outstanding.
InFlight == {k \in 1..MaxDrains : Outstanding(drains[k]) # {}}

\* C23: at most one drain has submissions outstanding at any time.
C23_OneDrainInFlight ==
  Cardinality(InFlight) <= 1

\* The record r is held by the store (under the id the store gave it).
Stored(r) ==
  \E j \in DOMAIN attendanceRecords :
    /\ attendanceRecords[j].studentId = r.studentId
    /\ attendanceRecords[j].teacherId = r.teacherId
    /\ attendanceRecords[j].sessionId = r.sessionId
    /\ attendanceRecords[j].timestamp = r.timestamp
    /\ attendanceRecords[j].location = r.location

\* A drain submitted r, all its submissions were fulfilled, and it cleared
\* the queue.
SubmittedAndCleared(r) ==
  /\ Stored(r)
  /\ \E k \in 1..MaxDrains :
       drains[k].settled = "cleared" /\ r \in Range(drains[k].snap)

\* C24: a record that a drain submitted and cleared, and that the persisted
\* queue no longer holds, is not written back to the persisted queue by a
\* capture taken while offline.
C24_ClearedNeverReappears ==
  [][isOffline =>
       \A r \in Range(storage') :
         SubmittedAndCleared(r) => r \in Range(storage)]_vars

\* The positions of the records the store accepted (markAttendance pushed),
\* after the initial ones.
Accepted == {j \in DOMAIN attendanceRecords : j > Len(initialAttendance)}

\* C25: two records the store accepted have different ids.
C25_AcceptedIdsDiffer ==
  \A i \in Accepted : \A j \in Accepted :
    i # j => attendanceRecords[i].id # attendanceRecords[j].id

\* A frame is decoded: a call of onScanSuccess starts in this step.
Decodes == proc.pc # "locating" /\ proc'.pc = "locating"

\* The capture creates its record in this step: it is appended to the queue,
\* or the store accepts it.
Creates == Enqueues \/ CaptureFulfils

\* The user's choice after a failure is pending: "Mark Attendance Anyway" is
\* shown for a scanned code.
AwaitsChoice == locationError # NULL /\ pendingScanData # None

\* A scan is being processed, or is processed and "Scan Another Code" was
\* not chosen yet.
InProgress ==
  proc.pc # "idle" \/ locationError # NULL \/ pendingScanData # None
    \/ scanCompleted

\* C26: a frame is decoded only when no scan is in progress; a call that
\* handles a scan starts only with a decoded frame or with the user's choice
\* for the scan that failed; a record is created only by such a call; and
\* once the record is created the scanner stays paused, with nothing in
\* flight and no choice pending, until "Scan Another Code".
C26_OneRecordPerScan ==
  [][/\ Decodes => ~InProgress
     /\ proc.pc = "idle" /\ proc'.pc # "idle" => Decodes \/ AwaitsChoice
     /\ Creates => proc.pc # "idle" \/ AwaitsChoice
     /\ Creates /\ scMounted' =>
          /\ proc'.pc = "idle"
          /\ scanCompleted'
          /\ locationError' = NULL
          /\ pendingScanData' = None
          /\ qrState' = "PAUSED"
     /\ (scMounted /\ scMounted' /\ scanCompleted /\ locationError = NULL
           /\ qrState = "PAUSED" /\ qrState' # "PAUSED")
          => ~scanCompleted' /\ ~Creates /\ proc'.pc = "idle"]_vars

C26_Witness ==
  /\ scMounted
  /\ scanCompleted
  /\ qrState = "PAUSED"
  /\ proc.pc = "idle"
  /\ message = "marked"
  /\ drains = [k \in 1..MaxDrains |-> NoDrain]
  /\ Len(attendanceRecords) = Len(initialAttendance) + 2

\* C27: no user object that a call of the mock API returned carries a
\* password field.
C27_NoPasswordReturned ==
  \A i \in DOMAIN apiRet.users : "password" \notin DOMAIN apiRet.users[i]

\* C28: no two stored accounts, teachers and students together, have the
\* same email.
C28_EmailsUnique ==
  LET accounts == teachers \o students
  IN \A i \in DOMAIN accounts : \A j \in DOMAIN accounts :
       i # j => accounts[i].email # accounts[j].email

\* updateTeacher stores the payload `teacher` over the account at `index`
\* in this step.
Updates(teacher, index) ==
  /\ apiRet'.op = "updateTeacher"
  /\ ~apiRet'.thrown
  /\ apiRet'.users[1].id = teacher.id
  /\ apiRet'.users[1].name = teacher.name
  /\ apiRet'.users[1].email = teacher.email
  /\ index = findIndex(teachers, teacher.id)
  /\ updateTeacher(teacher)

\* login finds the account u under its name: no account listed before it
\* has that name.
FoundByName(ts, ss, u) ==
  LET allUsers == ts \o ss
  IN \E i \in DOMAIN allUsers :
       /\ allUsers[i] = u
       /\ \A j \in 1..(i - 1) :
            toLowerCase(allUsers[j].name) # toLowerCase(u.name)

C29_ResultQuizLoads ==
  view = "results" /\ quizResult # None =>
    /\ getQuizById(quizResult[1].quizId) # None
    /\ fetch = "done" => quiz # None

=============================================================================
